---- MODULE Spec2Model ----
(***************************************************************************)
(* Model of src/src/models/resnet_1d.py: the 1D ResNet family.             *)
(*                                                                         *)
(* The model follows the construction of a network step by step (argument  *)
(* binding of the named presets, ResNet.__init__, _make_layer, the block   *)
(* constructors and the two initialization passes) and the forward pass    *)
(* with its stop-layer.  Tensors are modelled by their shape, the list of  *)
(* pipeline steps applied to them and the shapes met by every residual     *)
(* addition; convolution weights are random (kaiming_normal_) and are      *)
(* modelled only by the initialization scheme that last wrote them.        *)
(***************************************************************************)
EXTENDS Integers, Sequences, FiniteSets, TLC

VARIABLES pc, err, preset, caller, call, args, self, blk, fwd

vars == <<pc, err, preset, caller, call, args, self, blk, fwd>>

\* Largest per-stage block count of the directly assembled models.
MaxBlocks == 2

\* Largest stop-layer index passed to forward (the code accepts any value).
MaxStopLayer == 8

(***************************************************************************)
(* Python values and calls                                                 *)
(***************************************************************************)

\* Optional[List[bool]]: None, or a list.
NoneList == [isNone |-> TRUE, v |-> <<>>]

SomeList(v) == [isNone |-> FALSE, v |-> v]

EmptyDict == [n \in {} |-> 0]

Put(d, k, v) == [n \in (DOMAIN d) \cup {k} |-> IF n = k THEN v ELSE d[n]]

Range(s) == {s[i] : i \in DOMAIN s}

IndexOf(s, n) == CHOOSE i \in DOMAIN s : s[i] = n

\* Python's binding of a call f(*pos, **kw) to the parameter list of f:
\* params in order, the set of parameters without a default, the defaults,
\* and whether f takes **kwargs.  err is TRUE where Python raises TypeError.
Bind(params, required, defaults, pos, kw, varkw) ==
  LET names == Range(params)
      npos == IF Len(pos) <= Len(params) THEN Len(pos) ELSE Len(params)
      byPos == {params[i] : i \in 1..npos}
      byName == (DOMAIN kw) \cap names
      extra == (DOMAIN kw) \ names
      bad == \/ Len(pos) > Len(params)
             \/ byPos \cap byName # {}
             \/ (~varkw /\ extra # {})
             \/ required \ (byPos \cup byName) # {}
  IN [err |-> bad,
      args |-> IF bad THEN EmptyDict
               ELSE [n \in names |->
                       IF n \in byPos THEN pos[IndexOf(params, n)]
                       ELSE IF n \in byName THEN kw[n]
                       ELSE defaults[n]],
      kwargs |-> IF bad THEN EmptyDict ELSE [n \in extra |-> kw[n]]]

(***************************************************************************)
(* Layer descriptors                                                       *)
(***************************************************************************)

Conv1d(in_channels, out_channels, kernel_size, stride, padding, groups, dilation) ==
  [in_channels |-> in_channels, out_channels |-> out_channels,
   kernel_size |-> kernel_size, stride |-> stride, padding |-> padding,
   groups |-> groups, dilation |-> dilation, weight |-> "default"]

conv3(in_channels, out_channels, stride, groups, dilation) ==
  Conv1d(in_channels, out_channels, 3, stride, dilation, groups, dilation)

conv1(in_channels, out_channels, stride) ==
  Conv1d(in_channels, out_channels, 1, stride, 0, 1, 1)

\* norm_layer(num_features) for nn.BatchNorm1d: weight 1 and bias 0 by default.
BatchNorm1d(num_features) ==
  [num_features |-> num_features, weight |-> 1, bias |-> 0]

Expansion(block) == IF block = "Bottleneck" THEN 4 ELSE 1

(***************************************************************************)
(* Residual blocks                                                         *)
(***************************************************************************)

NoBlock == <<>>

\* nn.Sequential(conv1(...), norm_layer(...)), or None (the empty sequence).
NoDownsample == <<>>

Raise(e) == [err |-> e, block |-> NoBlock]

\* BasicBlock.__init__ without the dilation check.
BasicBlockNoDilationCheck(in_channels, out_channels, stride, downsample, groups, base_width, dilation, norm_layer) ==
  IF groups # 1 \/ base_width # 64 THEN Raise("ValueError")
  ELSE IF norm_layer = "None" THEN Raise("TypeError")
  ELSE [err |-> "none",
        block |-> [kind |-> "BasicBlock",
                   conv1 |-> conv3(in_channels, out_channels, stride, 1, 1),
                   bn1 |-> BatchNorm1d(out_channels),
                   conv2 |-> conv3(out_channels, out_channels, 1, 1, 1),
                   bn2 |-> BatchNorm1d(out_channels),
                   downsample |-> downsample,
                   stride |-> stride]]

\* BasicBlock.__init__ with the dilation check placed first.
BasicBlockDilationFirst(in_channels, out_channels, stride, downsample, groups, base_width, dilation, norm_layer) ==
  IF dilation > 1 THEN Raise("NotImplementedError")
  ELSE IF groups # 1 \/ base_width # 64 THEN Raise("ValueError")
  ELSE IF norm_layer = "None" THEN Raise("TypeError")
  ELSE [err |-> "none",
        block |-> [kind |-> "BasicBlock",
                   conv1 |-> conv3(in_channels, out_channels, stride, 1, 1),
                   bn1 |-> BatchNorm1d(out_channels),
                   conv2 |-> conv3(out_channels, out_channels, 1, 1, 1),
                   bn2 |-> BatchNorm1d(out_channels),
                   downsample |-> downsample,
                   stride |-> stride]]

\* BasicBlock.__init__: the block, or the exception it raises.
BasicBlock(in_channels, out_channels, stride, downsample, groups, base_width, dilation, norm_layer) ==
  IF groups # 1 \/ base_width # 64 THEN Raise("ValueError")
  ELSE IF dilation > 1 THEN Raise("NotImplementedError")
  ELSE IF norm_layer = "None" THEN Raise("TypeError")
  ELSE [err |-> "none",
        block |-> [kind |-> "BasicBlock",
                   conv1 |-> conv3(in_channels, out_channels, stride, 1, 1),
                   bn1 |-> BatchNorm1d(out_channels),
                   conv2 |-> conv3(out_channels, out_channels, 1, 1, 1),
                   bn2 |-> BatchNorm1d(out_channels),
                   downsample |-> downsample,
                   stride |-> stride]]

\* A width that ignores groups and base_width.
BottleneckWidthPlain(out_channels, base_width, groups) == out_channels

\* width = int(out_channels * (base_width / 64.)) * groups
BottleneckWidth(out_channels, base_width, groups) ==
  ((out_channels * base_width) \div 64) * groups

\* Bottleneck.__init__ (norm_layer None defaults to BatchNorm1d).
Bottleneck(in_channels, out_channels, stride, downsample, groups, base_width, dilation, norm_layer) ==
  LET width == BottleneckWidth(out_channels, base_width, groups)
  IN [err |-> "none",
      block |-> [kind |-> "Bottleneck",
                 conv1 |-> conv1(in_channels, width, 1),
                 bn1 |-> BatchNorm1d(width),
                 conv2 |-> conv3(width, width, stride, groups, dilation),
                 bn2 |-> BatchNorm1d(width),
                 conv3 |-> conv1(width, out_channels * 4, 1),
                 bn3 |-> BatchNorm1d(out_channels * 4),
                 downsample |-> downsample,
                 stride |-> stride]]

\* block(...) for block in {BasicBlock, Bottleneck}.
NewBlock(block, in_channels, out_channels, stride, downsample, groups, base_width, dilation, norm_layer) ==
  IF block = "Bottleneck"
  THEN Bottleneck(in_channels, out_channels, stride, downsample, groups, base_width,
                  dilation, norm_layer)
  ELSE BasicBlock(in_channels, out_channels, stride, downsample, groups, base_width,
                  dilation, norm_layer)

(***************************************************************************)
(* ResNet: stage assembly                                                  *)
(***************************************************************************)

\* The shortcut condition with "and" in place of "or".
NeedsDownsampleAnd(stride, in_channels, out_channels, expansion) ==
  stride # 1 /\ in_channels # out_channels * expansion

\* if stride != 1 or self.in_channels != out_channels * block.expansion
NeedsDownsample(stride, in_channels, out_channels, expansion) ==
  stride # 1 \/ in_channels # out_channels * expansion

\* _make_layer that hands the updated running dilation to the first block.
MakeLayerCurrentDilation(m, block, out_channels, blocks, stride, dilate) ==
  LET dilation1 == IF dilate THEN m.dilation * stride ELSE m.dilation
      stride1 == IF dilate THEN 1 ELSE stride
      outc == out_channels * Expansion(block)
      downsample == IF NeedsDownsample(stride1, m.in_channels, out_channels, Expansion(block))
                    THEN <<conv1(m.in_channels, outc, stride1), BatchNorm1d(outc)>>
                    ELSE NoDownsample
      m1 == [m EXCEPT !.dilation = dilation1]
      first == NewBlock(block, m.in_channels, out_channels, stride1, downsample,
                        m.groups, m.base_width, dilation1, m.norm_layer)
      m2 == [m1 EXCEPT !.in_channels = outc]
      rest == NewBlock(block, outc, out_channels, 1, NoDownsample,
                       m.groups, m.base_width, dilation1, m.norm_layer)
  IN IF first.err # "none" THEN [err |-> first.err, m |-> m1, layer |-> <<>>]
     ELSE IF blocks > 1 /\ rest.err # "none" THEN [err |-> rest.err, m |-> m2, layer |-> <<>>]
     ELSE [err |-> "none", m |-> m2,
           layer |-> <<first.block>> \o [j \in 1..(IF blocks > 1 THEN blocks - 1 ELSE 0) |-> rest.block]]

\* _make_layer that forgets to move the running input-channel count on.
MakeLayerStaleChannels(m, block, out_channels, blocks, stride, dilate) ==
  LET previous_dilation == m.dilation
      dilation1 == IF dilate THEN m.dilation * stride ELSE m.dilation
      stride1 == IF dilate THEN 1 ELSE stride
      outc == out_channels * Expansion(block)
      downsample == IF NeedsDownsample(stride1, m.in_channels, out_channels, Expansion(block))
                    THEN <<conv1(m.in_channels, outc, stride1), BatchNorm1d(outc)>>
                    ELSE NoDownsample
      m1 == [m EXCEPT !.dilation = dilation1]
      first == NewBlock(block, m.in_channels, out_channels, stride1, downsample,
                        m.groups, m.base_width, previous_dilation, m.norm_layer)
      rest == NewBlock(block, m.in_channels, out_channels, 1, NoDownsample,
                       m.groups, m.base_width, dilation1, m.norm_layer)
  IN IF first.err # "none" THEN [err |-> first.err, m |-> m1, layer |-> <<>>]
     ELSE IF blocks > 1 /\ rest.err # "none" THEN [err |-> rest.err, m |-> m1, layer |-> <<>>]
     ELSE [err |-> "none", m |-> m1,
           layer |-> <<first.block>> \o [j \in 1..(IF blocks > 1 THEN blocks - 1 ELSE 0) |-> rest.block]]

\* ResNet._make_layer: the stage built and self afterwards, or the exception
\* a block constructor raised and self as it was when it was raised.
MakeLayer(m, block, out_channels, blocks, stride, dilate) ==
  LET previous_dilation == m.dilation
      dilation1 == IF dilate THEN m.dilation * stride ELSE m.dilation
      stride1 == IF dilate THEN 1 ELSE stride
      outc == out_channels * Expansion(block)
      downsample == IF NeedsDownsample(stride1, m.in_channels, out_channels, Expansion(block))
                    THEN <<conv1(m.in_channels, outc, stride1), BatchNorm1d(outc)>>
                    ELSE NoDownsample
      m1 == [m EXCEPT !.dilation = dilation1]
      first == NewBlock(block, m.in_channels, out_channels, stride1, downsample,
                        m.groups, m.base_width, previous_dilation, m.norm_layer)
      m2 == [m1 EXCEPT !.in_channels = outc]
      rest == NewBlock(block, outc, out_channels, 1, NoDownsample,
                       m.groups, m.base_width, dilation1, m.norm_layer)
  IN IF first.err # "none" THEN [err |-> first.err, m |-> m1, layer |-> <<>>]
     ELSE IF blocks > 1 /\ rest.err # "none" THEN [err |-> rest.err, m |-> m2, layer |-> <<>>]
     ELSE [err |-> "none", m |-> m2,
           layer |-> <<first.block>> \o [j \in 1..(IF blocks > 1 THEN blocks - 1 ELSE 0) |-> rest.block]]

\* The out_channels and stride arguments of the four _make_layer calls.
StageOutChannels(i) == IF i = 1 THEN 64 ELSE IF i = 2 THEN 128 ELSE IF i = 3 THEN 256 ELSE 512

StageStride(i) == IF i = 1 THEN 1 ELSE 2

\* dilate argument: False for layer1, replace_stride_with_dilation[i-2] after.
StageDilate(a, i) == IF i = 1 THEN FALSE ELSE a.replace_stride_with_dilation.v[i - 1]

\* self before __init__ has assigned anything.
Unset == <<>>

NoSelf == [in_dim |-> Unset, in_channels |-> Unset, dilation |-> Unset, norm_layer |-> Unset, groups |-> Unset, base_width |-> Unset, stem |-> Unset, layers |-> <<>>, fc |-> Unset, out_dim |-> Unset]

\* A length check that also lets shorter lists through.
BadLengthAtMost(l) == Len(l) > 3

\* len(replace_stride_with_dilation) != 3
BadLength(l) == Len(l) # 3

\* replace_stride_with_dilation after the None default is filled in.
Flags(a) == IF a.replace_stride_with_dilation.isNone THEN SomeList(<<FALSE, FALSE, FALSE>>) ELSE a.replace_stride_with_dilation

\* fc_input_size = 512 * block.expansion * (4 if input_size == 64 else 1)
FcInputSize(block, input_size) == 512 * Expansion(block) * (IF input_size = 64 THEN 4 ELSE 1)

Linear(in_features, out_features) == [in_features |-> in_features, out_features |-> out_features]

(***************************************************************************)
(* ResNet: initialization passes                                           *)
(***************************************************************************)

ConvFields == {"conv1", "conv2", "conv3"}

NormFields == {"bn1", "bn2", "bn3"}

\* nn.init.kaiming_normal_(m.weight, mode="fan_out", nonlinearity="relu")
InitConv(c) == [c EXCEPT !.weight = "kaiming_normal_fan_out"]

\* nn.init.constant_(m.weight, 1); nn.init.constant_(m.bias, 0)
InitNorm(n) == [n EXCEPT !.weight = 1, !.bias = 0]

InitSequential(q) == IF Len(q) = 0 THEN q ELSE <<InitConv(q[1]), InitNorm(q[2])>>

InitBlock(b) == [f \in DOMAIN b |-> IF f \in ConvFields THEN InitConv(b[f]) ELSE IF f \in NormFields THEN InitNorm(b[f]) ELSE IF f = "downsample" THEN InitSequential(b[f]) ELSE b[f]]

MapBlocks(m, F(_)) == [m EXCEPT !.layers = [i \in DOMAIN m.layers |-> [j \in DOMAIN m.layers[i] |-> F(m.layers[i][j])]]]

\* for m in self.modules(): the general pass over convolutions and normalizations.
InitWeights(m) == [MapBlocks(m, InitBlock) EXCEPT !.stem = <<InitConv(m.stem[1]), InitNorm(m.stem[2])>>]

\* The name of the last normalization of a block's main path.
LastNorm(b) == IF b.kind = "Bottleneck" THEN "bn3" ELSE "bn2"

ZeroLastNorm(b) == [f \in DOMAIN b |-> IF f = LastNorm(b) THEN [b[f] EXCEPT !.weight = 0] ELSE b[f]]

\* if zero_init_residual: the pass over the residual blocks.
ZeroInitResidual(m) == MapBlocks(m, ZeroLastNorm)

\* The two passes in the wrong order.
InitPassesZeroFirst(m, zero_init_residual) == IF zero_init_residual THEN InitWeights(ZeroInitResidual(m)) ELSE InitWeights(m)

\* Lines 154-169: the general pass, then the optional zeroing pass.
InitPasses(m, zero_init_residual) == IF zero_init_residual THEN ZeroInitResidual(InitWeights(m)) ELSE InitWeights(m)

\* self.out_dim = 2048 if block is Bottleneck else 512
OutDim(block) == IF block = "Bottleneck" THEN 2048 ELSE 512

(***************************************************************************)
(* Forward pass on tensor shapes                                           *)
(***************************************************************************)

\* A tensor: its shape, the pipeline steps applied so far, the pair of shapes
\* (main path, identity path) met by every residual addition, and the
\* framework error that stopped the computation, if any.
Tensor(shape) == [shape |-> shape, ops |-> <<>>, adds |-> <<>>, err |-> "none"]

Fail(t) == [t EXCEPT !.err = "RuntimeError"]

Did(t, name) == IF t.err = "none" THEN [t EXCEPT !.ops = Append(@, name)] ELSE t

ConvLength(c, l) == (l + 2 * c.padding - c.dilation * (c.kernel_size - 1) - 1) \div c.stride + 1

ApplyConv(c, t) ==
  IF t.err # "none" THEN t
  ELSE IF Len(t.shape) # 3 THEN Fail(t)
  ELSE IF t.shape[2] # c.in_channels \/ ConvLength(c, t.shape[3]) < 1 THEN Fail(t)
  ELSE [t EXCEPT !.shape = <<t.shape[1], c.out_channels, ConvLength(c, t.shape[3])>>]

ApplyNorm(n, t) ==
  IF t.err # "none" THEN t
  ELSE IF t.shape[2] # n.num_features THEN Fail(t)
  ELSE t

Relu(t) == t

\* nn.MaxPool1d(kernel_size=3, stride=2, padding=1)
MaxPool(t) ==
  IF t.err # "none" THEN t
  ELSE [t EXCEPT !.shape = <<t.shape[1], t.shape[2], (t.shape[3] + 2 * 1 - (3 - 1) - 1) \div 2 + 1>>]

\* nn.AdaptiveAvgPool1d(1)
AvgPool(t) == IF t.err # "none" THEN t ELSE [t EXCEPT !.shape = <<t.shape[1], t.shape[2], 1>>]

\* nn.Flatten()
Flatten(t) == IF t.err # "none" \/ Len(t.shape) < 3 THEN t ELSE [t EXCEPT !.shape = <<t.shape[1], t.shape[2] * t.shape[3]>>]

ApplyLinear(fc, t) ==
  IF t.err # "none" THEN t
  ELSE IF t.shape[Len(t.shape)] # fc.in_features THEN Fail(t)
  ELSE [t EXCEPT !.shape = [i \in DOMAIN t.shape |-> IF i = Len(t.shape) THEN fc.out_features ELSE t.shape[i]]]

\* identity can be added in place to out when each of its dimensions is the
\* dimension of out, or 1 (broadcasting).
Broadcastable(identity, out) == Len(identity) = Len(out) /\ \A i \in DOMAIN out : identity[i] = out[i] \/ identity[i] = 1

\* out += identity
Add(out, identity) ==
  IF out.err # "none" THEN out
  ELSE IF identity.err # "none" THEN [out EXCEPT !.err = identity.err]
  ELSE LET logged == [out EXCEPT !.adds = Append(@, <<out.shape, identity.shape>>)]
       IN IF Broadcastable(identity.shape, out.shape) THEN logged ELSE Fail(logged)

ApplyDownsample(b, x) == IF Len(b.downsample) = 0 THEN x ELSE ApplyNorm(b.downsample[2], ApplyConv(b.downsample[1], x))

BasicBlockMain(b, x) == ApplyNorm(b.bn2, ApplyConv(b.conv2, Relu(ApplyNorm(b.bn1, ApplyConv(b.conv1, x)))))

BottleneckMain(b, x) == ApplyNorm(b.bn3, ApplyConv(b.conv3, Relu(ApplyNorm(b.bn2, ApplyConv(b.conv2, Relu(ApplyNorm(b.bn1, ApplyConv(b.conv1, x))))))))

BasicBlockForward(b, x) == Relu(Add(BasicBlockMain(b, x), ApplyDownsample(b, x)))

BottleneckForward(b, x) == Relu(Add(BottleneckMain(b, x), ApplyDownsample(b, x)))

BlockForward(b, x) == IF b.kind = "Bottleneck" THEN BottleneckForward(b, x) ELSE BasicBlockForward(b, x)

RECURSIVE ApplyBlocks(_, _, _)
ApplyBlocks(blocks, j, x) ==
  IF j > Len(blocks) THEN x
  ELSE LET y == BlockForward(blocks[j], x)
       IN IF y.err # "none" THEN y ELSE ApplyBlocks(blocks, j + 1, y)

\* self.layer<i>(x): the stage as nn.Sequential.
ApplyLayer(m, i, x) == ApplyBlocks(m.layers[i], 1, x)

\* The stem line of _forward_impl.
ApplyStem(m, x) == Did(Did(Did(ApplyNorm(m.stem[2], ApplyConv(m.stem[1], x)), "conv1"), "bn1"), "relu")

\* _forward_impl with the layer == 2 return placed before layer1.
ForwardImplEarlyReturn(m, x, layer) ==
  IF layer <= 0 THEN x
  ELSE LET o1 == ApplyStem(m, x) IN
  IF layer = 1 THEN o1
  ELSE LET o2 == Did(MaxPool(o1), "maxpool") IN
  IF layer = 2 THEN o2
  ELSE LET o3 == Did(ApplyLayer(m, 2, Did(ApplyLayer(m, 1, o2), "layer1")), "layer2") IN
  IF layer = 3 THEN o3
  ELSE LET o4 == Did(ApplyLayer(m, 3, o3), "layer3") IN
  IF layer = 4 THEN o4
  ELSE LET o5 == Did(ApplyLayer(m, 4, o4), "layer4") IN
  IF layer = 5 THEN o5
  ELSE LET o6 == Did(Flatten(Did(AvgPool(o5), "avgpool")), "flatten") IN
  IF layer = 6 THEN o6
  ELSE Did(ApplyLinear(m.fc[1], o6), "fc")

\* ResNet._forward_impl / ResNet.forward.
ForwardImpl(m, x, layer) ==
  IF layer <= 0 THEN x
  ELSE LET o1 == ApplyStem(m, x) IN
  IF layer = 1 THEN o1
  ELSE LET o2 == Did(ApplyLayer(m, 1, Did(MaxPool(o1), "maxpool")), "layer1") IN
  IF layer = 2 THEN o2
  ELSE LET o3 == Did(ApplyLayer(m, 2, o2), "layer2") IN
  IF layer = 3 THEN o3
  ELSE LET o4 == Did(ApplyLayer(m, 3, o3), "layer3") IN
  IF layer = 4 THEN o4
  ELSE LET o5 == Did(ApplyLayer(m, 4, o4), "layer4") IN
  IF layer = 5 THEN o5
  ELSE LET o6 == Did(Flatten(Did(AvgPool(o5), "avgpool")), "flatten") IN
  IF layer = 6 THEN o6
  ELSE Did(ApplyLinear(m.fc[1], o6), "fc")

(***************************************************************************)
(* Named presets and the call of ResNet                                    *)
(***************************************************************************)

ResNetParams == <<"block", "layers", "num_classes", "num_input_channels", "input_size", "zero_init_residual", "groups", "width_per_group", "replace_stride_with_dilation", "norm_layer">>

ResNetRequired == {"block", "layers", "num_classes", "num_input_channels", "input_size"}

ResNetDefaults == [zero_init_residual |-> FALSE, groups |-> 1, width_per_group |-> 64, replace_stride_with_dilation |-> NoneList, norm_layer |-> "None"]

\* The binding of ResNet(*pos, **kw) to the parameters of ResNet.__init__.
ResNetBind(pos, kw) == Bind(ResNetParams, ResNetRequired, ResNetDefaults, pos, kw, FALSE)

\* The ResNet(...) call a preset makes, or err where the preset's own
\* parameters cannot be bound.
CallOf(b, pos, kw) == [err |-> b.err, pos |-> IF b.err THEN <<>> ELSE pos, kw |-> IF b.err THEN EmptyDict ELSE kw]

\* def <preset>(num_input_channels, **kwargs)
BindPreset(pos, kw) == Bind(<<"num_input_channels">>, {"num_input_channels"}, EmptyDict, pos, kw, TRUE)

ResNet18(pos, kw) ==
  LET b == Bind(<<"num_classes", "num_channels", "input_size">>, {"num_classes", "num_channels"}, [input_size |-> 32], pos, kw, TRUE)
  IN CallOf(b, <<"BasicBlock", <<2, 2, 2, 2>>, b.args.num_classes, b.args.num_channels, b.args.input_size>>, b.kwargs)

resnet34(pos, kw) ==
  LET b == BindPreset(pos, kw)
  IN CallOf(b, <<"BasicBlock", <<3, 4, 6, 3>>, b.args.num_input_channels>>, b.kwargs)

\* resnet50 with the block counts of resnet101.
resnet50Deep(pos, kw) ==
  LET b == BindPreset(pos, kw)
  IN CallOf(b, <<"Bottleneck", <<3, 4, 23, 3>>, b.args.num_input_channels>>, b.kwargs)

resnet50(pos, kw) ==
  LET b == BindPreset(pos, kw)
  IN CallOf(b, <<"Bottleneck", <<3, 4, 6, 3>>, b.args.num_input_channels>>, b.kwargs)

resnet101(pos, kw) ==
  LET b == BindPreset(pos, kw)
  IN CallOf(b, <<"Bottleneck", <<3, 4, 23, 3>>, b.args.num_input_channels>>, b.kwargs)

resnet152(pos, kw) ==
  LET b == BindPreset(pos, kw)
  IN CallOf(b, <<"Bottleneck", <<3, 8, 36, 3>>, b.args.num_input_channels>>, b.kwargs)

resnext50_32x4d(pos, kw) ==
  LET b == BindPreset(pos, kw)
  IN CallOf(b, <<"Bottleneck", <<3, 4, 6, 3>>, b.args.num_input_channels>>, Put(Put(b.kwargs, "groups", 32), "width_per_group", 4))

resnext101_32x8d(pos, kw) ==
  LET b == BindPreset(pos, kw)
  IN CallOf(b, <<"Bottleneck", <<3, 4, 23, 3>>, b.args.num_input_channels>>, Put(Put(b.kwargs, "groups", 32), "width_per_group", 8))

wide_resnet50_2(pos, kw) ==
  LET b == BindPreset(pos, kw)
  IN CallOf(b, <<"Bottleneck", <<3, 4, 6, 3>>, b.args.num_input_channels>>, Put(b.kwargs, "width_per_group", 64 * 2))

wide_resnet101_2(pos, kw) ==
  LET b == BindPreset(pos, kw)
  IN CallOf(b, <<"Bottleneck", <<3, 4, 23, 3>>, b.args.num_input_channels>>, Put(b.kwargs, "width_per_group", 64 * 2))

PresetNames == {"ResNet18", "resnet34", "resnet50", "resnet101", "resnet152", "resnext50_32x4d", "resnext101_32x8d", "wide_resnet50_2", "wide_resnet101_2"}

Preset(name, pos, kw) ==
  CASE name = "ResNet18" -> ResNet18(pos, kw)
    [] name = "resnet34" -> resnet34(pos, kw)
    [] name = "resnet50" -> resnet50(pos, kw)
    [] name = "resnet101" -> resnet101(pos, kw)
    [] name = "resnet152" -> resnet152(pos, kw)
    [] name = "resnext50_32x4d" -> resnext50_32x4d(pos, kw)
    [] name = "resnext101_32x8d" -> resnext101_32x8d(pos, kw)
    [] name = "wide_resnet50_2" -> wide_resnet50_2(pos, kw)
    [] name = "wide_resnet101_2" -> wide_resnet101_2(pos, kw)

(***************************************************************************)
(* Inputs                                                                  *)
(***************************************************************************)

\* What a caller passes to a preset: positional arguments and keywords.
CallerPos == {<<>>, <<3>>, <<10, 3>>, <<10, 3, 64>>}

CallerKw == {EmptyDict, [input_size |-> 64], [num_input_channels |-> 3, input_size |-> 32], [num_classes |-> 10, input_size |-> 32], [zero_init_residual |-> TRUE], [groups |-> 2], [replace_stride_with_dilation |-> SomeList(<<FALSE, FALSE, TRUE>>)]}

\* replace_stride_with_dilation values of the right length, and None.
FlagLists == {NoneList} \cup {SomeList(f) : f \in [1..3 -> BOOLEAN]}

\* replace_stride_with_dilation values of a wrong length.
BadFlagLists == {SomeList(<<>>), SomeList(<<TRUE, FALSE>>), SomeList(<<FALSE, TRUE, FALSE, TRUE>>)}

GroupsAndWidth == {<<1, 64>>, <<2, 64>>, <<32, 4>>, <<1, 128>>}

\* Keyword arguments of a direct ResNet(...) call.
ResNetKw(block, layers, num_classes, num_input_channels, input_size, zero, gw, flags) ==
  [block |-> block, layers |-> layers, num_classes |-> num_classes, num_input_channels |-> num_input_channels, input_size |-> input_size, zero_init_residual |-> zero, groups |-> gw[1], width_per_group |-> gw[2], replace_stride_with_dilation |-> flags]

\* Topologies: every list of 1..MaxBlocks blocks per stage, every flag list.
TopologyCalls == {ResNetKw(b, l, 10, 3, 32, FALSE, gw, f) : b \in {"BasicBlock", "Bottleneck"}, l \in [1..4 -> 1..MaxBlocks], gw \in GroupsAndWidth, f \in FlagLists}

\* Options: input size, zero initialization and flag lists of a wrong length.
OptionCalls == {ResNetKw(b, l, n, 3, s, z, <<1, 64>>, f) : b \in {"BasicBlock", "Bottleneck"}, l \in {<<1, 1, 1, 1>>, <<2, 1, 2, 1>>}, n \in {1, 10}, s \in {32, 64}, z \in BOOLEAN, f \in {NoneList, SomeList(<<FALSE, FALSE, TRUE>>)} \cup BadFlagLists}

\* The nine preset topologies, assembled directly.
PresetShapes == {<<"BasicBlock", <<2, 2, 2, 2>>, <<1, 64>>>>, <<"BasicBlock", <<3, 4, 6, 3>>, <<1, 64>>>>, <<"Bottleneck", <<3, 4, 6, 3>>, <<1, 64>>>>, <<"Bottleneck", <<3, 4, 23, 3>>, <<1, 64>>>>, <<"Bottleneck", <<3, 8, 36, 3>>, <<1, 64>>>>, <<"Bottleneck", <<3, 4, 6, 3>>, <<32, 4>>>>, <<"Bottleneck", <<3, 4, 23, 3>>, <<32, 8>>>>, <<"Bottleneck", <<3, 4, 6, 3>>, <<1, 128>>>>, <<"Bottleneck", <<3, 4, 23, 3>>, <<1, 128>>>>}

PresetShapedCalls == {ResNetKw(p[1], p[2], 10, c, s, z, p[3], NoneList) : p \in PresetShapes, c \in {1, 3}, s \in {32, 64}, z \in BOOLEAN}

DirectCalls == TopologyCalls \cup OptionCalls \cup PresetShapedCalls

\* Well-formed inputs (batch, num_input_channels, length) of a model.
Inputs(m) == {Tensor(<<1, m.in_dim, 33>>), Tensor(<<3, m.in_dim, 64>>)}

StopLayers == (-1)..MaxStopLayer

(***************************************************************************)
(* State machine                                                           *)
(***************************************************************************)

NoCall == [made |-> FALSE, pos |-> <<>>, kw |-> EmptyDict]

NoCaller == [pos |-> <<>>, kw |-> EmptyDict]

NoArgs == EmptyDict

NoFwd == <<>>

Init ==
  /\ pc = "idle"
  /\ err = "none"
  /\ preset = "none"
  /\ caller = NoCaller
  /\ call = NoCall
  /\ args = NoArgs
  /\ self = NoSelf
  /\ blk = <<>>
  /\ fwd = NoFwd

\* ResNet.__init__ up to the length check (lines 116-130), on bound arguments.
Enter(a) ==
  /\ args' = [a EXCEPT !.replace_stride_with_dilation = Flags(a)]
  /\ self' = [NoSelf EXCEPT !.norm_layer = IF a.norm_layer = "None" THEN "BatchNorm1d" ELSE a.norm_layer, !.in_dim = a.num_input_channels, !.in_channels = 64, !.dilation = 1]
  /\ IF BadLength(Flags(a).v)
     THEN pc' = "raised" /\ err' = "ValueError"
     ELSE pc' = "checked" /\ err' = "none"

\* ResNet(*pos, **kw): binding of the arguments, then __init__ up to line 130.
CallResNet(pos, kw) ==
  LET b == ResNetBind(pos, kw)
  IN /\ call' = [made |-> TRUE, pos |-> pos, kw |-> kw]
     /\ IF b.err
        THEN pc' = "raised" /\ err' = "TypeError" /\ UNCHANGED <<args, self>>
        ELSE Enter(b.args)

\* A caller invokes a named preset.
CallPreset(name, pos, kw) ==
  /\ pc = "idle"
  /\ preset' = name
  /\ caller' = [pos |-> pos, kw |-> kw]
  /\ LET p == Preset(name, pos, kw)
     IN IF p.err
        THEN pc' = "raised" /\ err' = "TypeError" /\ UNCHANGED <<call, args, self>>
        ELSE CallResNet(p.pos, p.kw)
  /\ UNCHANGED <<blk, fwd>>

\* A caller invokes ResNet directly.
NewResNet(kw) ==
  /\ pc = "idle"
  /\ preset' = "ResNet"
  /\ caller' = [pos |-> <<>>, kw |-> kw]
  /\ CallResNet(<<>>, kw)
  /\ UNCHANGED <<blk, fwd>>

\* A caller constructs a single block.
ConstructBlock(kind, stride, groups, base_width, dilation, norm_layer) ==
  /\ pc = "idle"
  /\ preset' = kind
  /\ LET r == NewBlock(kind, 64, 64, stride, NoDownsample, groups, base_width, dilation, norm_layer)
     IN /\ blk' = <<[groups |-> groups, base_width |-> base_width, dilation |-> dilation, norm_layer |-> norm_layer, block |-> r.block]>>
        /\ err' = r.err
        /\ pc' = IF r.err = "none" THEN "block" ELSE "raised"
  /\ UNCHANGED <<caller, call, args, self, fwd>>

\* Lines 132-138: groups, base width and the stem.
BuildStem ==
  /\ pc = "checked"
  /\ self' = [self EXCEPT !.groups = args.groups, !.base_width = args.width_per_group, !.stem = <<Conv1d(self.in_dim, self.in_channels, 7, 2, 3, 1, 1), BatchNorm1d(self.in_channels)>>]
  /\ pc' = "stem"
  /\ UNCHANGED <<err, preset, caller, call, args, blk, fwd>>

\* Lines 139-145: self.layer<i> = self._make_layer(...), for the next i.
BuildLayer ==
  /\ pc = "stem"
  /\ Len(self.layers) < 4
  /\ LET i == Len(self.layers) + 1
         r == MakeLayer(self, args.block, StageOutChannels(i), args.layers[i], StageStride(i), StageDilate(args, i))
     IN IF r.err = "none"
        THEN /\ self' = [r.m EXCEPT !.layers = Append(@, r.layer)]
             /\ UNCHANGED <<pc, err>>
        ELSE /\ self' = r.m
             /\ pc' = "raised"
             /\ err' = r.err
  /\ UNCHANGED <<preset, caller, call, args, blk, fwd>>

\* Lines 146-152: pooling, flatten and the classifier.
BuildHead ==
  /\ pc = "stem"
  /\ Len(self.layers) = 4
  /\ self' = [self EXCEPT !.fc = <<Linear(FcInputSize(args.block, args.input_size), args.num_classes)>>]
  /\ pc' = "head"
  /\ UNCHANGED <<err, preset, caller, call, args, blk, fwd>>

\* Lines 154-171: the initialization passes and out_dim; __init__ returns.
Initialize ==
  /\ pc = "head"
  /\ self' = [InitPasses(self, args.zero_init_residual) EXCEPT !.out_dim = OutDim(args.block)]
  /\ pc' = "done"
  /\ UNCHANGED <<err, preset, caller, call, args, blk, fwd>>

\* model.forward(x, layer) on a constructed model.
Forward(x, layer) ==
  /\ pc = "done"
  /\ fwd' = <<[x |-> x, layer |-> layer, out |-> ForwardImpl(self, x, layer)]>>
  /\ pc' = "forwarded"
  /\ UNCHANGED <<err, preset, caller, call, args, self, blk>>

\* The calls a caller can make on a fresh interpreter.
Construct ==
  /\ pc = "idle"
  /\ \/ \E name \in PresetNames, pos \in CallerPos, kw \in CallerKw : CallPreset(name, pos, kw)
     \/ \E kw \in DirectCalls : NewResNet(kw)
     \/ \E kind \in {"BasicBlock", "Bottleneck"}, stride \in {1, 2}, groups \in {1, 2}, base_width \in {64, 128}, dilation \in 0..3, norm_layer \in {"None", "BatchNorm1d"} : ConstructBlock(kind, stride, groups, base_width, dilation, norm_layer)

\* The calls a caller can make on a constructed model.
Use ==
  /\ pc = "done"
  /\ \E x \in Inputs(self), layer \in StopLayers : Forward(x, layer)

Next ==
  \/ Construct
  \/ BuildStem
  \/ BuildLayer
  \/ BuildHead
  \/ Initialize
  \/ Use

Spec == Init /\ [][Next]_vars

(***************************************************************************)
(* Properties                                                              *)
(***************************************************************************)

Constructed == pc \in {"done", "forwarded"}

Bound == DOMAIN args # {}

\* The blocks of the stages built so far, as (stage, index) pairs.
BlockIndices == UNION {{<<i, j>> : j \in 1..Len(self.layers[i])} : i \in 1..Len(self.layers)}

\* A model with the block variant, block counts, groups and width of a preset.
PresetTopology == Bound /\ <<args.block, args.layers, <<args.groups, args.width_per_group>>>> \in PresetShapes

\* C1: for every preset topology and every num_classes, num_input_channels
\* and input_size (64 included), forward at stop-layer 7 returns an output of
\* shape (batch, num_classes): the channel count leaving the flatten step is
\* the input width the classifier was built with.
C1_ForwardShape ==
  (pc = "forwarded" /\ fwd[1].layer = 7 /\ PresetTopology) =>
    /\ ForwardImpl(self, fwd[1].x, 6).shape = <<fwd[1].x.shape[1], self.fc[1].in_features>>
    /\ fwd[1].out.err = "none"
    /\ fwd[1].out.shape = <<fwd[1].x.shape[1], args.num_classes>>

\* C1, construction through the named presets: the eight presets declared as
\* (num_input_channels, **kwargs) hand their only positional argument to
\* ResNet as num_classes and can never supply num_input_channels, so each of
\* their calls ends in TypeError; only ResNet18 constructs a model.
C1_PresetsRaise ==
  (preset \in PresetNames \ {"ResNet18"}) => (pc = "raised" /\ err = "TypeError")

C1_PresetsRaiseWitness ==
  /\ preset = "resnet50" /\ caller.pos = <<3>> /\ DOMAIN caller.kw = {"input_size"}
  /\ call.made /\ pc = "raised" /\ err = "TypeError"


\* C2: a BasicBlock constructed with groups != 1 or base_width != 64 raises
\* the configuration error (ValueError); with groups = 1, base_width = 64 and
\* dilation > 1 it raises NotImplementedError; in both cases no block is
\* produced; with groups = 1, base_width = 64 and dilation <= 1 neither of
\* the two errors is raised.
C2_BasicBlockChecks ==
  (preset = "BasicBlock" /\ Len(blk) = 1) =>
    LET c == blk[1] IN
    /\ (c.groups # 1 \/ c.base_width # 64) => (pc = "raised" /\ err = "ValueError" /\ DOMAIN c.block = {})
    /\ (c.groups = 1 /\ c.base_width = 64 /\ c.dilation > 1) => (pc = "raised" /\ err = "NotImplementedError" /\ DOMAIN c.block = {})
    /\ (c.groups = 1 /\ c.base_width = 64 /\ c.dilation <= 1) => err \notin {"ValueError", "NotImplementedError"}
    /\ pc = "block" => (c.block.kind = "BasicBlock" /\ c.groups = 1 /\ c.base_width = 64 /\ c.dilation <= 1)

C2_Witness ==
  /\ preset = "BasicBlock" /\ Len(blk) = 1
  /\ blk[1].groups = 2 /\ blk[1].dilation = 2
  /\ pc = "raised" /\ err = "ValueError"

\* The replace_stride_with_dilation value the caller's ResNet(...) call carries.
CalledFlags == IF "replace_stride_with_dilation" \in DOMAIN call.kw THEN call.kw.replace_stride_with_dilation ELSE NoneList

\* C3: a replace_stride_with_dilation value whose length is not 3 makes
\* ResNet.__init__ raise ValueError before the stem or any stage is built;
\* None is treated as [False, False, False]; with a value of length 3 no
\* error is raised before the stem is built.
C3_FlagLength ==
  Bound =>
    /\ CalledFlags.isNone => args.replace_stride_with_dilation = SomeList(<<FALSE, FALSE, FALSE>>)
    /\ ~CalledFlags.isNone => args.replace_stride_with_dilation = CalledFlags
    /\ Len(args.replace_stride_with_dilation.v) # 3 => (pc = "raised" /\ err = "ValueError" /\ Len(self.stem) = 0 /\ Len(self.layers) = 0)
    /\ (Len(args.replace_stride_with_dilation.v) = 3 /\ pc = "raised") => Len(self.stem) = 2

C3_Witness ==
  /\ Bound /\ pc = "raised" /\ err = "ValueError"
  /\ args.replace_stride_with_dilation = SomeList(<<TRUE, FALSE>>)
  /\ Len(self.stem) = 0

\* The weight the claim expects of normalization f of block b.
ExpectedNormWeight(b, f) == IF args.zero_init_residual /\ f = (IF b.kind = "Bottleneck" THEN "bn3" ELSE "bn2") THEN 0 ELSE 1

\* C4: after construction with zero_init_residual=True the last main-path
\* normalization of every block (bn2 of BasicBlock, bn3 of Bottleneck) has
\* weight 0, every other normalization weight (stem, inner, shortcut) is 1 and
\* every normalization bias is 0; with zero_init_residual=False every
\* normalization weight is 1.
C4_ZeroInitResidual ==
  Constructed =>
    /\ self.stem[2].weight = 1 /\ self.stem[2].bias = 0
    /\ \A ij \in BlockIndices :
         LET b == self.layers[ij[1]][ij[2]] IN
         /\ \A f \in (DOMAIN b) \cap NormFields : b[f].weight = ExpectedNormWeight(b, f) /\ b[f].bias = 0
         /\ Len(b.downsample) = 2 => (b.downsample[2].weight = 1 /\ b.downsample[2].bias = 0)

C4_Witness ==
  /\ pc = "done" /\ args.zero_init_residual /\ args.block = "Bottleneck"
  /\ Len(self.layers[2][1].downsample) = 2
  /\ self.layers[2][1].bn3.weight = 0 /\ self.layers[2][1].bn2.weight = 1
  /\ self.layers[2][1].downsample[2].weight = 1

\* The fixed pipeline of _forward_impl, one name per step.
Pipeline == <<"conv1", "bn1", "relu", "maxpool", "layer1", "layer2", "layer3", "layer4", "avgpool", "flatten", "fc">>

\* How many pipeline steps the claim gives stop-layer k: 0 none, 1 the stem
\* (conv, norm, activation), 2..5 up to stage 1..4, 6 up to flatten, 7 all.
StopIndex(k) == IF k = 0 THEN 0 ELSE IF k = 1 THEN 3 ELSE IF k = 6 THEN 10 ELSE IF k = 7 THEN 11 ELSE k + 3

\* One pipeline step applied by hand to an intermediate result.
ApplyStep(m, name, t) ==
  CASE name = "conv1" -> Did(ApplyConv(m.stem[1], t), name)
    [] name = "bn1" -> Did(ApplyNorm(m.stem[2], t), name)
    [] name = "relu" -> Did(Relu(t), name)
    [] name = "maxpool" -> Did(MaxPool(t), name)
    [] name = "layer1" -> Did(ApplyLayer(m, 1, t), name)
    [] name = "layer2" -> Did(ApplyLayer(m, 2, t), name)
    [] name = "layer3" -> Did(ApplyLayer(m, 3, t), name)
    [] name = "layer4" -> Did(ApplyLayer(m, 4, t), name)
    [] name = "avgpool" -> Did(AvgPool(t), name)
    [] name = "flatten" -> Did(Flatten(t), name)
    [] name = "fc" -> Did(ApplyLinear(m.fc[1], t), name)

RECURSIVE ContinueFrom(_, _, _)
ContinueFrom(m, t, n) ==
  IF n > Len(Pipeline) THEN t
  ELSE LET u == ApplyStep(m, Pipeline[n], t)
       IN IF u.err # "none" THEN u ELSE ContinueFrom(m, u, n + 1)

IsPrefix(p, q) == Len(p) <= Len(q) /\ p = SubSeq(q, 1, Len(p))

\* C5: forward with stop-layer k in 0..7 applies exactly the first
\* StopIndex(k) steps of the pipeline and nothing deeper (k = 0 returns the
\* input untouched), and applying the remaining steps to its result gives
\* the result of forward with stop-layer 7.
C5_PartialForward ==
  (pc = "forwarded" /\ fwd[1].layer \in 0..7) =>
    LET f == fwd[1]
        n == StopIndex(f.layer)
    IN /\ f.out.err = "none" => f.out.ops = SubSeq(Pipeline, 1, n)
       /\ IsPrefix(f.out.ops, SubSeq(Pipeline, 1, n))
       /\ f.layer = 0 => f.out = f.x
       /\ ContinueFrom(self, f.out, Len(f.out.ops) + 1) = ForwardImpl(self, f.x, 7)

C5_Witness ==
  /\ pc = "forwarded" /\ fwd[1].layer = 2 /\ fwd[1].out.err = "none"
  /\ fwd[1].out.ops = <<"conv1", "bn1", "relu", "maxpool", "layer1">>
  /\ ForwardImpl(self, fwd[1].x, 7).err = "none"
  /\ Len(ForwardImpl(self, fwd[1].x, 7).ops) = 11

\* The table of the presets: block variant and per-stage block counts.
TableBlock(name) == IF name \in {"ResNet18", "resnet34"} THEN "BasicBlock" ELSE "Bottleneck"

TableLayers(name) ==
  CASE name = "ResNet18" -> <<2, 2, 2, 2>>
    [] name \in {"resnet34", "resnet50", "resnext50_32x4d", "wide_resnet50_2"} -> <<3, 4, 6, 3>>
    [] name \in {"resnet101", "resnext101_32x8d", "wide_resnet101_2"} -> <<3, 4, 23, 3>>
    [] name = "resnet152" -> <<3, 8, 36, 3>>

KwOr(kw, key, default) == IF key \in DOMAIN kw THEN kw[key] ELSE default

\* C6, on the models assembled with the arguments of the table: the blocks
\* of the resnext50_32x4d and wide_resnet50_2 topologies are as wide as twice
\* the stage's out_channels, those of the resnet50 topology as wide as
\* out_channels.
C6_BuiltWidths ==
  (Bound /\ preset = "ResNet" /\ args.block = "Bottleneck") =>
    \A ij \in BlockIndices :
      LET b == self.layers[ij[1]][ij[2]]
          w == b.conv2.out_channels
      IN /\ b.conv1.out_channels = w /\ b.conv2.in_channels = w /\ b.conv3.in_channels = w
         /\ <<args.groups, args.width_per_group>> \in {<<32, 4>>, <<1, 128>>} => w = 2 * StageOutChannels(ij[1])
         /\ <<args.groups, args.width_per_group>> = <<1, 64>> => w = StageOutChannels(ij[1])

BlockIn(b) == b.conv1.in_channels

BlockOut(b) == IF b.kind = "Bottleneck" THEN b.conv3.out_channels ELSE b.conv2.out_channels

\* The output-channel count of what precedes block j of stage i.
Preceding(i, j) == IF j > 1 THEN BlockOut(self.layers[i][j - 1]) ELSE IF i > 1 THEN StageOutChannels(i - 1) * Expansion(args.block) ELSE 64

\* C7: in every stage built, there are as many blocks as asked for, the
\* first block outputs stage_out_channels * expansion channels, every block
\* declares as input the channels the block before it outputs (the stem's 64
\* for the first block of stage 1); after the four stages the running channel
\* count is 512 * expansion, which is the model's out_dim.
C7_ChannelChain ==
  Bound =>
    /\ \A i \in 1..Len(self.layers) :
         /\ Len(self.layers[i]) = args.layers[i]
         /\ BlockOut(self.layers[i][1]) = StageOutChannels(i) * Expansion(args.block)
         /\ Len(self.layers[i][1].downsample) = 2 => (self.layers[i][1].downsample[1].in_channels = Preceding(i, 1) /\ self.layers[i][1].downsample[1].out_channels = StageOutChannels(i) * Expansion(args.block))
    /\ \A ij \in BlockIndices :
         /\ BlockIn(self.layers[ij[1]][ij[2]]) = Preceding(ij[1], ij[2])
         /\ BlockOut(self.layers[ij[1]][ij[2]]) = StageOutChannels(ij[1]) * Expansion(args.block)
    /\ (Len(self.layers) >= 1 /\ pc # "raised") => self.in_channels = StageOutChannels(Len(self.layers)) * Expansion(args.block)
    /\ Len(self.layers) = 4 => self.in_channels = 512 * Expansion(args.block)
    /\ Constructed => self.out_dim = self.in_channels

C7_Witness ==
  /\ pc = "done" /\ args.block = "Bottleneck" /\ args.layers = <<2, 1, 2, 1>>
  /\ BlockIn(self.layers[1][1]) = 64 /\ BlockIn(self.layers[1][2]) = 256
  /\ BlockIn(self.layers[2][1]) = 256 /\ BlockOut(self.layers[4][1]) = 2048
  /\ self.out_dim = 2048

\* The stride the claim gives stage i: 1 for stage 1, else 1 when the stage's
\* flag is set and the requested 2 otherwise.
EffectiveStride(i) == IF i = 1 THEN 1 ELSE IF args.replace_stride_with_dilation.v[i - 1] THEN 1 ELSE 2

\* How many residual additions forward performs up to stop-layer k.
AddsUpTo(k) == LET n[i \in 0..4] == IF i = 0 THEN 0 ELSE n[i - 1] + Len(self.layers[i]) IN IF k <= 1 THEN 0 ELSE IF k >= 5 THEN n[4] ELSE n[k - 1]

\* C8: the first block of a stage has a shortcut (1-tap convolution with the
\* stage's effective stride, then normalization) exactly when the effective
\* stride is not 1 or the running input-channel count differs from
\* out_channels * expansion; every later block has stride 1 and no shortcut;
\* and in every residual addition of a forward pass the identity path has the
\* shape of the main-path output.
C8_Shortcuts ==
  /\ Bound =>
       \A ij \in BlockIndices :
         LET b == self.layers[ij[1]][ij[2]] IN
         IF ij[2] = 1
         THEN /\ b.stride = EffectiveStride(ij[1])
              /\ Len(b.downsample) = 2 <=> (EffectiveStride(ij[1]) # 1 \/ Preceding(ij[1], 1) # StageOutChannels(ij[1]) * Expansion(args.block))
              /\ Len(b.downsample) = 2 => (b.downsample[1].kernel_size = 1 /\ b.downsample[1].stride = EffectiveStride(ij[1]))
              /\ Len(b.downsample) \in {0, 2}
         ELSE b.stride = 1 /\ Len(b.downsample) = 0
  /\ pc = "forwarded" =>
       /\ \A a \in DOMAIN fwd[1].out.adds : fwd[1].out.adds[a][1] = fwd[1].out.adds[a][2]
       /\ fwd[1].out.err = "none" => Len(fwd[1].out.adds) = AddsUpTo(fwd[1].layer)

C8_Witness ==
  /\ pc = "forwarded" /\ fwd[1].layer = 7 /\ args.block = "BasicBlock" /\ args.layers = <<2, 1, 2, 1>>
  /\ Len(self.layers[1][1].downsample) = 0 /\ Len(self.layers[2][1].downsample) = 2
  /\ Len(fwd[1].out.adds) = 6
  /\ fwd[1].out.adds[3] = <<<<3, 128, 8>>, <<3, 128, 8>>>>

\* Number of flags set among stages 2..i.
FlagsUpTo(i) == Cardinality({s \in 2..i : args.replace_stride_with_dilation.v[s - 1]})

\* C9: the running dilation starts at 1; after stage i it is 2 to the number
\* of flags set among stages 2..i; a flagged stage is built with stride 1, any
\* other with the requested stride; the first block of a stage has the
\* dilation held before the stage, the remaining blocks the updated one; after
\* the four stages the product of the strides used and the running dilation
\* is 8.
C9_Dilation ==
  (Bound /\ pc # "raised" /\ Len(args.replace_stride_with_dilation.v) = 3) =>
    /\ self.dilation = 2 ^ FlagsUpTo(Len(self.layers))
    /\ \A ij \in BlockIndices :
         LET b == self.layers[ij[1]][ij[2]] IN
         /\ ij[2] = 1 => b.stride = EffectiveStride(ij[1])
         /\ b.kind = "Bottleneck" => b.conv2.dilation = 2 ^ FlagsUpTo(IF ij[2] = 1 THEN ij[1] - 1 ELSE ij[1])
         /\ b.kind = "Bottleneck" => b.conv2.padding = b.conv2.dilation
    /\ Len(self.layers) = 4 => self.layers[1][1].stride * self.layers[2][1].stride * self.layers[3][1].stride * self.layers[4][1].stride * self.dilation = 8

C9_Witness ==
  /\ pc = "done" /\ args.block = "Bottleneck" /\ args.layers = <<2, 2, 2, 2>>
  /\ args.replace_stride_with_dilation.v = <<TRUE, FALSE, TRUE>>
  /\ self.dilation = 4
  /\ self.layers[2][1].conv2.dilation = 1 /\ self.layers[2][2].conv2.dilation = 2
  /\ self.layers[4][1].conv2.dilation = 2 /\ self.layers[4][2].conv2.dilation = 4

AnyFlag == \E s \in 1..3 : args.replace_stride_with_dilation.v[s]

\* The first stage whose flag is set.
FirstFlagged == CHOOSE i \in 2..4 : args.replace_stride_with_dilation.v[i - 1] /\ \A s \in 2..(i - 1) : ~args.replace_stride_with_dilation.v[s - 1]

\* The stage in which the first block is built after a flag took effect: the
\* flagged stage when it has more than one block, the stage after it otherwise
\* (5 when there is none).
FailingStage == IF args.layers[FirstFlagged] > 1 THEN FirstFlagged ELSE FirstFlagged + 1

\* C10: a BasicBlock model (groups 1, width 64) with a flag set raises
\* NotImplementedError in the stage where the first block is built after the
\* flag took effect, and is constructed only when that is no stage at all
\* (only the last flag set and one block in the last stage); with no flag set
\* it raises nothing; Bottleneck models raise nothing whatever the flags.
C10_BasicBlockDilation ==
  (Bound /\ Len(args.replace_stride_with_dilation.v) = 3) =>
    /\ (args.block = "BasicBlock" /\ args.groups = 1 /\ args.width_per_group = 64 /\ AnyFlag) =>
         /\ pc = "raised" => (err = "NotImplementedError" /\ Len(self.layers) = FailingStage - 1)
         /\ Len(self.layers) < FailingStage
         /\ pc \in {"head", "done", "forwarded"} => (args.replace_stride_with_dilation.v = <<FALSE, FALSE, TRUE>> /\ args.layers[4] = 1)
    /\ (args.block = "BasicBlock" /\ args.groups = 1 /\ args.width_per_group = 64 /\ ~AnyFlag) => pc # "raised"
    /\ args.block = "Bottleneck" => pc # "raised"

C10_Witness ==
  /\ Bound /\ args.block = "BasicBlock" /\ args.groups = 1 /\ args.width_per_group = 64
  /\ args.replace_stride_with_dilation.v = <<TRUE, FALSE, FALSE>> /\ args.layers = <<2, 1, 2, 1>>
  /\ pc = "raised" /\ err = "NotImplementedError" /\ Len(self.layers) = 2

====
